---------------------------- MODULE Spec2Model ----------------------------
(***************************************************************************)
(* A model of snapdom's asset resolution (fetchImage,                      *)
(* inlineSingleBackgroundEntry), of its plugin registry and hook runner,   *)
(* and of the capture pipeline (captureDOM).                               *)
(*                                                                         *)
(* Strings are TLA+ strings; the code's string tests (startsWith, the      *)
(* regular expressions) and conversions (encodeURIComponent, template      *)
(* literals) are computed on them character by character.                  *)
(***************************************************************************)
EXTENDS Integers, Sequences, FiniteSets, TLC

VARIABLES
  cache,      \* the Resource Cache: [image, background, baseStyle], each a map
  img,        \* the fetchImage calls: slot -> call record
  bg,         \* the inlineSingleBackgroundEntry calls: slot -> call record
  options,    \* the options object the calls are made with
  pluginRegistry,  \* the registered plugins, in the order of their first use()
  run,        \* the runHook call
  used,       \* the last call of use() and the uses since the last clear
  cap,        \* the captureDOM call of each caller
  pre         \* the preCache call

callerVars == <<pluginRegistry, run, used, cap, pre>>
vars == <<cache, img, bg, options, callerVars>>

(***************************************************************************)
(* Bounds                                                                  *)
(***************************************************************************)
MaxImgCalls == 2
MaxBgCalls == 2
MaxPlugins == 2

ImgCalls == 1..MaxImgCalls
BgCalls == 1..MaxBgCalls

(***************************************************************************)
(* Strings                                                                 *)
(***************************************************************************)
Char(s, i) == SubSeq(s, i, i)

StartsWith(s, p) == Len(s) >= Len(p) /\ SubSeq(s, 1, Len(p)) = p

EndsWith(s, p) == Len(s) >= Len(p) /\ SubSeq(s, Len(s) - Len(p) + 1, Len(s)) = p

\* The least index >= from at which p occurs in s, 0 when there is none.
IndexOf(s, p, from) ==
  LET hits == {i \in from..(Len(s) - Len(p) + 1) : SubSeq(s, i, i + Len(p) - 1) = p}
  IN  IF hits = {} THEN 0 ELSE CHOOSE i \in hits : \A j \in hits : i <= j

RECURSIVE MapChars(_, _, _)
\* s with each character replaced by f[character] when f maps it.
MapChars(s, f, i) ==
  IF i > Len(s) THEN ""
  ELSE (IF Char(s, i) \in DOMAIN f THEN f[Char(s, i)] ELSE Char(s, i))
       \o MapChars(s, f, i + 1)

\* encodeURIComponent: everything but A-Z a-z 0-9 - _ . ! ~ * ' ( ) is escaped.
ComponentEscapes ==
  [ch \in {"<", ">", "/", " ", "\"", "=", ":", "?", ";", ",", "%"} |->
     CASE ch = "<" -> "%3C" [] ch = ">" -> "%3E" [] ch = "/" -> "%2F"
       [] ch = " " -> "%20" [] ch = "\"" -> "%22" [] ch = "=" -> "%3D"
       [] ch = ":" -> "%3A" [] ch = "?" -> "%3F" [] ch = ";" -> "%3B"
       [] ch = "," -> "%2C" [] ch = "%" -> "%25"]

encodeURIComponent(s) == MapChars(s, ComponentEscapes, 1)

\* safeEncodeURI: percent-encoding of a whole URL; the reserved characters
\* (: / ? = ; ,) stay.
URIEscapes ==
  [ch \in {"<", ">", " ", "\""} |->
     CASE ch = "<" -> "%3C" [] ch = ">" -> "%3E"
       [] ch = " " -> "%20" [] ch = "\"" -> "%22"]

safeEncodeURI(uri) == MapChars(uri, URIEscapes, 1)

(***************************************************************************)
(* The Resource Cache                                                      *)
(***************************************************************************)
EmptyMap == [k \in {} |-> ""]

Has(m, k) == k \in DOMAIN m

MapSet(m, k, v) == [x \in (DOMAIN m) \cup {k} |-> IF x = k THEN v ELSE m[x]]

\* cache.reset(): every namespace is emptied.
cacheReset == [image |-> EmptyMap, background |-> EmptyMap, baseStyle |-> EmptyMap]

(***************************************************************************)
(* The world fetchImage runs in                                            *)
(***************************************************************************)
\* window.location.origin
PageOrigin == "https://a"

\* The origin of new URL(url, window.location.href).
Origin(url) ==
  IF StartsWith(url, "data:") THEN "null"
  ELSE IF StartsWith(url, "https://")
    THEN LET slash == IndexOf(url, "/", 9)
         IN  IF slash = 0 THEN url ELSE SubSeq(url, 1, slash - 1)
    ELSE PageOrigin

getCrossOriginMode(url) ==
  IF Origin(url) = PageOrigin THEN "use-credentials" ELSE "anonymous"

Credentials(mode) == IF mode = "use-credentials" THEN "include" ELSE "omit"

\* options.useProxy: absent, a non-string (true), or a string.
NoProxy == [kind |-> "absent", str |-> ""]
ProxyOpts == {NoProxy, [kind |-> "boolean", str |-> ""], [kind |-> "string", str |-> "/p?u="]}

ProxyConfiguredAnyTruthy(useProxy) == useProxy.kind # "absent"

\* options.useProxy && typeof options.useProxy === "string"
ProxyConfigured(useProxy) == useProxy.kind = "string" /\ useProxy.str # ""

\* options.useProxy.replace(/\/$/, "") + safeEncodeURI(url)
ProxiedURL(useProxy, url) ==
  (IF EndsWith(useProxy.str, "/")
     THEN SubSeq(useProxy.str, 1, Len(useProxy.str) - 1)
     ELSE useProxy.str) \o safeEncodeURI(url)

\* The references the calls are made with.
Sources == {"data:image/png;base64,AA", "a.svg?v", "https://b/i b.png"}

\* What a FileReader hands back for a fetched body, or "" when the fetch,
\* the body read or the reader failed.
ReaderResults == {"", "data:image/jpeg;base64,QQ", "data:text/html;base64,PA"}

\* What response.text() hands back for a vector image, or a failed fetch.
FetchFailed == "<failed>"
SvgTexts == {FetchFailed, "<svg/>"}

\* canvas.toDataURL("image/png")
CanvasPNG == "data:image/png;base64,CC"

ErrTimeout == "[SnapDOM - fetchImage] Image load timed out"
ErrProxy == "[SnapDOM - fetchImage] CORS restrictions prevented image capture (even via proxy)"
ErrNoProxy == "[SnapDOM - fetchImage] Fetch fallback failed and no proxy provided"

(***************************************************************************)
(* fetchImage                                                              *)
(***************************************************************************)
\* /\.svg(\?.*)?$/i
isSVG(src) ==
  \E i \in 1..(Len(src) - 3) :
    /\ Char(src, i) = "."
    /\ Char(src, i + 1) \in {"s", "S"}
    /\ Char(src, i + 2) \in {"v", "V"}
    /\ Char(src, i + 3) \in {"g", "G"}
    /\ (i + 3 = Len(src) \/ Char(src, i + 4) = "?")

isDataURIWrongPrefix(src) == StartsWith(src, "data:img/")

\* src.startsWith("data:image/")
isDataURI(src) == StartsWith(src, "data:image/")

IdleCall ==
  [pc |-> "idle", src |-> "", kind |-> "none",
   crossOrigin |-> "", timer |-> "none", signal |-> "none",
   promise |-> "pending", value |-> "", io |-> <<>>, wrote |-> <<>>]

\* The I/O a call starts, in order: the timer, the image load, the fetches
\* (each with the credentials it was made with and, once settled, what it
\* handed back).
Pending == "<pending>"
TimerIO == [kind |-> "timer", url |-> "", cred |-> "", out |-> ""]
ImageIO(src, mode) == [kind |-> "image", url |-> src, cred |-> mode, out |-> ""]
FetchIO(url, cred) == [kind |-> "fetch", url |-> url, cred |-> cred, out |-> Pending]

\* The last fetch of the call has settled with out.
Settled(call, out) == [call EXCEPT !.io[Len(call.io)].out = out]

\* fetch(fetchUrl, {mode: "cors", credentials: ...}) of fetchBlobAsDataURL
BlobFetchIO(fetchUrl) == FetchIO(fetchUrl, Credentials(getCrossOriginMode(fetchUrl)))

CacheHitReturnsKey(call, image) ==
  [call |-> [call EXCEPT !.pc = "done", !.kind = "hit",
                         !.promise = "fulfilled", !.value = call.src],
   image |-> image]

\* return Promise.resolve(cache.image.get(src))
CacheHit(call, image) ==
  [call |-> [call EXCEPT !.pc = "done", !.kind = "hit",
                         !.promise = "fulfilled", !.value = image[call.src]],
   image |-> image]

\* cache.image.set(src, src); return Promise.resolve(src)
DataURIResult(call, image) ==
  [call |-> [call EXCEPT !.pc = "done", !.kind = "data",
                         !.promise = "fulfilled", !.value = call.src,
                         !.wrote = <<call.src>>],
   image |-> MapSet(image, call.src, call.src)]

\* The synchronous part of fetchImage(src, options): the call record it
\* leaves and the image namespace after it.
FetchImageCall(src, image) ==
  LET crossOriginValue == getCrossOriginMode(src)
      call == [IdleCall EXCEPT !.src = src, !.crossOrigin = crossOriginValue]
  IN
  IF Has(image, src)
    THEN CacheHit(call, image)
  ELSE IF isDataURI(src)
    THEN DataURIResult(call, image)
  ELSE IF isSVG(src)
    THEN [call |-> [call EXCEPT !.pc = "svgfetch", !.kind = "svg",
                                !.io = <<FetchIO(src, Credentials(crossOriginValue))>>],
          image |-> image]
  ELSE [call |-> [call EXCEPT !.pc = "loading", !.kind = "raster",
                              !.timer = "armed",
                              !.io = <<TimerIO, ImageIO(src, crossOriginValue)>>],
        image |-> image]

\* resolve(v) / reject(e) of a promise: the first to settle it wins.
Settle(call, how, v) ==
  IF call.promise = "pending"
    THEN [call EXCEPT !.promise = how, !.value = v]
    ELSE call

\* cache.image.set(src, v) followed by resolve(v), as the raster handlers do.
StoreAndResolve(call, v) ==
  [Settle(call, "fulfilled", v) EXCEPT !.pc = "done", !.wrote = Append(@, v)]

\* fetchWithFallback(url) up to its first fetch.
StartFallback(call) ==
  [call EXCEPT !.pc = "direct", !.io = Append(@, BlobFetchIO(call.src))]

\* The reader result is a string starting with data:image/.
ValidImageData(out) == StartsWith(out, "data:image/")

\* fetchWithFallback has returned v: the vector-image path returns it as it
\* is, the raster handlers store it and resolve.
FallbackReturned(c, v) ==
  IF img[c].kind = "svg"
    THEN /\ img' = [img EXCEPT ![c] = [Settle(Settled(@, v), "fulfilled", v) EXCEPT !.pc = "done"]]
         /\ UNCHANGED cache
    ELSE /\ img' = [img EXCEPT ![c] = StoreAndResolve(Settled(@, v), v)]
         /\ cache' = [cache EXCEPT !.image = MapSet(@, img[c].src, v)]

\* fetchWithFallback has thrown e.
FallbackThrew(c, out, e) ==
  /\ img' = [img EXCEPT ![c] = [Settle(Settled(@, out), "rejected", e) EXCEPT !.pc = "done"]]
  /\ UNCHANGED cache

\* A caller calls fetchImage(src, options).
FetchImage(c, src) ==
  /\ img[c].pc = "idle"
  /\ \A d \in ImgCalls : d < c => img[d].pc # "idle"
  /\ LET r == FetchImageCall(src, cache.image)
     IN  /\ img' = [img EXCEPT ![c] = r.call]
         /\ cache' = [cache EXCEPT !.image = r.image]
  /\ UNCHANGED <<bg, options, callerVars>>

\* The timer of setTimeout fires: reject(new Error(... timed out)).
TimerFires(c) ==
  /\ img[c].timer = "armed"
  /\ img' = [img EXCEPT ![c] = [Settle(@, "rejected", ErrTimeout) EXCEPT !.timer = "fired"]]
  /\ UNCHANGED <<cache, bg, options, callerVars>>

\* clearTimeout(timeoutId): a timer that has fired stays fired.
ClearTimer(call) == IF call.timer = "armed" THEN [call EXCEPT !.timer = "cleared"] ELSE call

\* image.onload up to its await of image.decode().
ImageOnLoad(c) ==
  /\ img[c].pc = "loading"
  /\ img' = [img EXCEPT ![c] = [ClearTimer(@) EXCEPT !.pc = "decode", !.signal = "load"]]
  /\ UNCHANGED <<cache, bg, options, callerVars>>

\* image.onerror up to the first fetch of fetchWithFallback.
ImageOnError(c) ==
  /\ img[c].pc = "loading"
  /\ img' = [img EXCEPT ![c] = StartFallback([ClearTimer(@) EXCEPT !.signal = "error"])]
  /\ UNCHANGED <<cache, bg, options, callerVars>>

\* The rest of image.onload: the decode and the canvas steps succeeded
\* (ok), or one of them threw and the catch starts the fallback.
ImageDecoded(c, ok) ==
  /\ img[c].pc = "decode"
  /\ IF ok
       THEN /\ img' = [img EXCEPT ![c] = StoreAndResolve(@, CanvasPNG)]
            /\ cache' = [cache EXCEPT !.image = MapSet(@, img[c].src, CanvasPNG)]
       ELSE /\ img' = [img EXCEPT ![c] = StartFallback(@)]
            /\ UNCHANGED cache
  /\ UNCHANGED <<bg, options, callerVars>>

\* The direct fetch of fetchWithFallback has settled with reader result out.
DirectFetched(c, out) ==
  /\ img[c].pc = "direct"
  /\ IF ValidImageData(out)
       THEN FallbackReturned(c, out)
       ELSE IF ProxyConfigured(options.useProxy)
         THEN /\ img' = [img EXCEPT ![c] =
                   [Settled(@, out) EXCEPT
                      !.pc = "proxy",
                      !.io = Append(@, BlobFetchIO(ProxiedURL(options.useProxy, img[c].src)))]]
              /\ UNCHANGED cache
         ELSE FallbackThrew(c, out, ErrNoProxy)
  /\ UNCHANGED <<bg, options, callerVars>>

\* The proxied fetch of fetchWithFallback has settled with reader result out.
ProxyFetched(c, out) ==
  /\ img[c].pc = "proxy"
  /\ IF ValidImageData(out)
       THEN FallbackReturned(c, out)
       ELSE FallbackThrew(c, out, ErrProxy)
  /\ UNCHANGED <<bg, options, callerVars>>

\* The fetch and text() of the vector-image path have settled.
SvgFetched(c, svgText) ==
  /\ img[c].pc = "svgfetch"
  /\ IF svgText # FetchFailed
       THEN LET encoded == "data:image/svg+xml;charset=utf-8," \o encodeURIComponent(svgText)
            IN  /\ img' = [img EXCEPT ![c] = StoreAndResolve(Settled(@, svgText), encoded)]
                /\ cache' = [cache EXCEPT !.image = MapSet(@, img[c].src, encoded)]
       ELSE /\ img' = [img EXCEPT ![c] = StartFallback(Settled(@, svgText))]
            /\ UNCHANGED cache
  /\ UNCHANGED <<bg, options, callerVars>>

\* The background calls once cache.reset() has run: those made before it
\* are stale.
AfterReset(calls) == [b \in DOMAIN calls |-> [calls[b] EXCEPT !.stale = (calls[b].pc # "idle")]]

\* preCache(root, {reset: true}): cache.reset() and nothing else.
PreCacheReset ==
  /\ cache' = cacheReset
  /\ bg' = AfterReset(bg)
  /\ UNCHANGED <<img, options, callerVars>>

\* The events of the raster path.
RasterStep(c) ==
  \/ TimerFires(c)
  \/ ImageOnLoad(c)
  \/ ImageOnError(c)
  \/ \E ok \in BOOLEAN : ImageDecoded(c, ok)

\* The events of the vector-image path.
SvgStep(c) == \E t \in SvgTexts : SvgFetched(c, t)

\* The events of fetchWithFallback.
FallbackStep(c) ==
  \/ \E out \in ReaderResults : DirectFetched(c, out)
  \/ \E out \in ReaderResults : ProxyFetched(c, out)

(***************************************************************************)
(* inlineSingleBackgroundEntry                                             *)
(***************************************************************************)
UpperCase ==
  [ch \in {"L", "I", "N", "E", "A", "R", "G", "D", "T", "P", "C", "O", "U"} |->
     CASE ch = "L" -> "l" [] ch = "I" -> "i" [] ch = "N" -> "n" [] ch = "E" -> "e"
       [] ch = "A" -> "a" [] ch = "R" -> "r" [] ch = "G" -> "g" [] ch = "D" -> "d"
       [] ch = "T" -> "t" [] ch = "P" -> "p" [] ch = "C" -> "c" [] ch = "O" -> "o"
       [] ch = "U" -> "u"]

ToLower(s) == MapChars(s, UpperCase, 1)

\* /^((repeating-)?(linear|radial|conic)-gradient)\(/i
isGradient(entry) ==
  \E rep \in {"", "repeating-"}, shape \in {"linear", "radial", "conic"} :
    StartsWith(ToLower(entry), rep \o shape \o "-gradient(")

\* extractURL(entry): the payload of the first url(...), with its quotes
\* removed; "" (falsy, like null) when there is none.
extractURL(entry) ==
  LET start == IndexOf(entry, "url(", 1)
      q == IF start # 0 /\ start + 4 <= Len(entry) /\ Char(entry, start + 4) \in {"'", "\""}
             THEN Char(entry, start + 4) ELSE ""
      from == start + 4 + Len(q)
      close == IF start = 0 THEN 0 ELSE IndexOf(entry, q \o ")", from)
  IN  IF close = 0 THEN "" ELSE SubSeq(entry, from, close - 1)

\* The background-image layers the calls are made with.
Entries ==
  {"none", "Linear-Gradient(red, blue)", "image-set(x)",
   "url(data:image/png;base64,AA)", "url('a b.svg?v')"}

\* stale: the cache has been reset since the call was made.
IdleEntry ==
  [pc |-> "idle", entry |-> "", path |-> "none", key |-> "", child |-> 0,
   status |-> "pending", ret |-> "", stale |-> FALSE]

\* return options.skipInline ? void 0 : `url(${cache.background.get(encodedUrl)})`
HitResult(call, background) ==
  IF options.skipInline
    THEN [call EXCEPT !.pc = "done", !.status = "void"]
    ELSE [call EXCEPT !.pc = "done", !.status = "returned",
                      !.ret = "url(" \o background[call.key] \o ")"]

MissResultAlwaysReturns(call, dataUrl) ==
  [call EXCEPT !.pc = "done", !.status = "returned",
               !.ret = "url(\"" \o dataUrl \o "\")"]

\* return options.skipInline ? void 0 : `url("${dataUrl}")`
MissResult(call, dataUrl) ==
  IF options.skipInline
    THEN [call EXCEPT !.pc = "done", !.status = "void"]
    ELSE [call EXCEPT !.pc = "done", !.status = "returned",
                      !.ret = "url(\"" \o dataUrl \o "\")"]

PassThroughDropsUnknown(entry) ==
  IF isGradient(entry) \/ entry = "none" THEN entry ELSE "none"

\* if (isGradient || entry === "none") return entry; return entry;
PassThrough(entry) == IF isGradient(entry) \/ entry = "none" THEN entry ELSE entry

\* The lowest free fetchImage slot, 0 when every slot is taken.
FreeSlot ==
  LET free == {c \in ImgCalls : img[c].pc = "idle"}
  IN  IF free = {} THEN 0 ELSE CHOOSE c \in free : \A d \in free : c <= d

\* A caller calls inlineSingleBackgroundEntry(entry, options): the call up
\* to its return or to its await of fetchImage(encodedUrl, options).
InlineSingleBackgroundEntry(b, entry) ==
  /\ bg[b].pc = "idle"
  /\ \A d \in BgCalls : d < b => bg[d].pc # "idle"
  /\ LET rawUrl == extractURL(entry)
         encodedUrl == safeEncodeURI(rawUrl)
         call == [IdleEntry EXCEPT !.entry = entry]
     IN  IF rawUrl # ""
           THEN IF Has(cache.background, encodedUrl)
                  THEN /\ bg' = [bg EXCEPT ![b] =
                            HitResult([call EXCEPT !.path = "hit", !.key = encodedUrl],
                                      cache.background)]
                       /\ UNCHANGED <<cache, img>>
                  ELSE /\ FreeSlot # 0
                       /\ LET r == FetchImageCall(encodedUrl, cache.image)
                          IN  /\ img' = [img EXCEPT ![FreeSlot] = r.call]
                              /\ cache' = [cache EXCEPT !.image = r.image]
                       /\ bg' = [bg EXCEPT ![b] =
                            [call EXCEPT !.pc = "await", !.path = "miss",
                                         !.key = encodedUrl, !.child = FreeSlot]]
           ELSE /\ bg' = [bg EXCEPT ![b] =
                     [call EXCEPT !.pc = "done", !.path = "pass",
                                  !.status = "returned", !.ret = PassThrough(entry)]]
                /\ UNCHANGED <<cache, img>>
  /\ UNCHANGED <<options, callerVars>>

BackgroundResumesUnlessStale(b) ==
  /\ bg[b].pc = "await"
  /\ img[bg[b].child].promise # "pending"
  /\ IF img[bg[b].child].promise = "fulfilled"
       THEN LET dataUrl == img[bg[b].child].value
            IN  /\ cache' = IF bg[b].stale THEN cache
                            ELSE [cache EXCEPT !.background = MapSet(@, bg[b].key, dataUrl)]
                /\ bg' = [bg EXCEPT ![b] = MissResult(@, dataUrl)]
       ELSE /\ bg' = [bg EXCEPT ![b] =
                 [@ EXCEPT !.pc = "done", !.status = "raised",
                           !.ret = img[bg[b].child].value]]
            /\ UNCHANGED cache
  /\ UNCHANGED <<img, options, callerVars>>

\* The await of fetchImage is over: the result is stored under the encoded
\* key and returned, or the rejection propagates out of the call.
BackgroundResumes(b) ==
  /\ bg[b].pc = "await"
  /\ img[bg[b].child].promise # "pending"
  /\ IF img[bg[b].child].promise = "fulfilled"
       THEN LET dataUrl == img[bg[b].child].value
            IN  /\ cache' = [cache EXCEPT !.background = MapSet(@, bg[b].key, dataUrl)]
                /\ bg' = [bg EXCEPT ![b] = MissResult(@, dataUrl)]
       ELSE /\ bg' = [bg EXCEPT ![b] =
                 [@ EXCEPT !.pc = "done", !.status = "raised",
                           !.ret = img[bg[b].child].value]]
            /\ UNCHANGED cache
  /\ UNCHANGED <<img, options, callerVars>>

\* The lowest free slot of calls, 0 when every slot is taken.
FreeIn(calls) ==
  LET free == {c \in DOMAIN calls : calls[c].pc = "idle"}
  IN  IF free = {} THEN 0 ELSE CHOOSE c \in free : \A d \in free : c <= d

\* inlineSingleBackgroundEntry(entry, options) up to its return or its
\* await, made in slot b of st.
EntryCall(entry, b, st) ==
  LET rawUrl == extractURL(entry)
      encodedUrl == safeEncodeURI(rawUrl)
      call == [IdleEntry EXCEPT !.entry = entry]
      c == FreeIn(st.img)
  IN  IF rawUrl = ""
        THEN [st EXCEPT !.bg[b] = [call EXCEPT !.pc = "done", !.path = "pass",
                                               !.status = "returned",
                                               !.ret = PassThrough(entry)]]
      ELSE IF Has(st.cache.background, encodedUrl)
        THEN [st EXCEPT !.bg[b] = HitResult([call EXCEPT !.path = "hit", !.key = encodedUrl],
                                            st.cache.background)]
      ELSE IF c = 0 THEN [st EXCEPT !.ok = FALSE]
      ELSE LET r == FetchImageCall(encodedUrl, st.cache.image)
           IN  [st EXCEPT !.img[c] = r.call, !.cache.image = r.image,
                          !.bg[b] = [call EXCEPT !.pc = "await", !.path = "miss",
                                                 !.key = encodedUrl, !.child = c]]

(***************************************************************************)
(* The plugin registry and the hook runner                                 *)
(***************************************************************************)
HookNames == {"beforeClone", "afterClone", "beforeRender", "afterRender", "afterExport"}

\* What a plugin holds under a hook name: nothing ("none"), a value that is
\* no function ("notfn"), or a function that returns ("sync"), throws
\* ("throws"), or returns a promise that fulfils ("async") or rejects
\* ("rejects").
IsFunctionThatReturns(kind) == kind \in {"sync", "async"}

\* typeof hookFn === 'function'
IsFunction(kind) == kind \in {"sync", "async", "throws", "rejects"}

\* An object: its own properties in insertion order, as <<key, value>>.
ObjKeys(obj) == {obj[i][1] : i \in 1..Len(obj)}

ObjGet(obj, k) == obj[CHOOSE i \in 1..Len(obj) : obj[i][1] = k][2]

ObjSet(obj, k, v) ==
  IF k \in ObjKeys(obj)
    THEN [i \in 1..Len(obj) |-> IF obj[i][1] = k THEN <<k, v>> ELSE obj[i]]
    ELSE Append(obj, <<k, v>>)

RECURSIVE Assign(_, _, _)
\* target with the properties of source from the i-th on assigned to it.
Assign(target, source, i) ==
  IF i > Len(source) THEN target
  ELSE Assign(ObjSet(target, source[i][1], source[i][2]), source, i + 1)

SpreadFirstWins(a, b) == Assign(Assign(<<>>, b, 1), a, 1)

\* { ...a, ...b }: an absent (undefined) object spreads like an empty one.
Spread(a, b) == Assign(Assign(<<>>, a, 1), b, 1)

NoHooks == [h \in HookNames |-> "none"]

\* A plugin object: its name, its options and what it holds under the
\* hook names afterRender and beforeClone.
Plugin(name, opts, afterRender, beforeClone) ==
  [name |-> name, options |-> opts,
   hooks |-> [NoHooks EXCEPT !["afterRender"] = afterRender,
                             !["beforeClone"] = beforeClone]]

\* The plugin objects handed to use().
GlobalPlugins ==
  { Plugin("x", << <<"a", 1>> >>, "async", "none"),
    Plugin("x", << <<"b", 1>>, <<"a", 2>> >>, "rejects", "sync"),
    Plugin("y", << >>, "sync", "notfn"),
    Plugin("", << >>, "sync", "none") }

\* The plugin objects passed in a plugins list.
LocalPlugins ==
  { Plugin("x", << <<"b", 2>> >>, "none", "sync"),
    Plugin("y", << <<"c", 1>> >>, "throws", "none") }

\* The entries of a plugins list: a name, a plugin object, or a value of
\* another type (a function has a name too).
NameEntry(n) == [type |-> "string", name |-> n, options |-> << >>, hooks |-> NoHooks]

ObjectEntry(p) == [type |-> "object", name |-> p.name, options |-> p.options, hooks |-> p.hooks]

FunctionEntry(n) == [type |-> "function", name |-> n, options |-> << >>, hooks |-> NoHooks]

ListEntries ==
  {NameEntry("x"), FunctionEntry("x")} \cup {ObjectEntry(p) : p \in LocalPlugins}

\* The hook names runHook is called with.
HooksRun == {"afterRender", "beforeClone"}

PluginLists == UNION {[1..n -> ListEntries] : n \in 0..MaxPlugins}

PluginOf(entry) == [name |-> entry.name, options |-> entry.options, hooks |-> entry.hooks]

\* pluginRegistry.has(name) / .get(name) / .set(name, plugin): a Map keeps
\* the place of a key that is set again.
RegistryHas(reg, name) == \E i \in 1..Len(reg) : reg[i].name = name

RegistryGet(reg, name) == reg[CHOOSE i \in 1..Len(reg) : reg[i].name = name]

RegistrySetKeepsFirst(reg, plugin) ==
  IF RegistryHas(reg, plugin.name) THEN reg ELSE Append(reg, plugin)

RegistrySet(reg, plugin) ==
  IF RegistryHas(reg, plugin.name)
    THEN [i \in 1..Len(reg) |-> IF reg[i].name = plugin.name THEN plugin ELSE reg[i]]
    ELSE Append(reg, plugin)

\* One turn of the loop of normalizePlugins.
NormalizeEntry(normalized, entry, reg) ==
  IF entry.type = "string"
    THEN IF RegistryHas(reg, entry.name)
           THEN Append(normalized, RegistryGet(reg, entry.name))
           ELSE normalized
  ELSE IF entry.name # "" /\ entry.type = "object"
    THEN IF RegistryHas(reg, entry.name)
           THEN LET base == RegistryGet(reg, entry.name)
                IN  Append(normalized,
                           [base EXCEPT !.options = Spread(base.options, entry.options)])
           ELSE Append(normalized, PluginOf(entry))
  ELSE normalized

RECURSIVE NormalizeFrom(_, _, _, _)
NormalizeFrom(plugins, reg, i, normalized) ==
  IF i > Len(plugins) THEN normalized
  ELSE NormalizeFrom(plugins, reg, i + 1, NormalizeEntry(normalized, plugins[i], reg))

normalizePlugins(plugins, reg) == NormalizeFrom(plugins, reg, 1, << >>)

\* writes: what the hooks have written to the shared context, in order;
\* seen: for each hook called, its place in the list and the writes it found
\* in the context and the hooks in flight at its call; inflight: the hooks
\* called and not yet settled.
IdleRun ==
  [pc |-> "idle", hookName |-> "", allPlugins |-> << >>, inflight |-> {},
   writes |-> << >>, seen |-> << >>]

AwaitsHookNever == FALSE

\* await hookFn(context): the loop goes on only when the hook has settled.
AwaitsHook == TRUE

RECURSIVE RunLoop(_, _)
\* The loop of runHook from the i-th plugin on, up to its next await, its
\* end or a throw.
RunLoop(r, i) ==
  IF i > Len(r.allPlugins)
    THEN [r EXCEPT !.pc = "done"]
  ELSE LET kind == r.allPlugins[i].hooks[r.hookName]
           called == [r EXCEPT
                        !.seen = Append(@, [idx |-> i, saw |-> r.writes,
                                            during |-> r.inflight]),
                        !.writes = IF kind = "sync"
                                     THEN @ \o << <<i, "begin">>, <<i, "finish">> >>
                                     ELSE Append(@, <<i, "begin">>)]
       IN  IF ~IsFunction(kind) THEN RunLoop(r, i + 1)
           ELSE IF kind = "throws" THEN [called EXCEPT !.pc = "threw"]
           ELSE IF AwaitsHook
             THEN [called EXCEPT !.inflight = @ \cup {i}]
             ELSE RunLoop([called EXCEPT !.inflight = @ \cup {i}], i + 1)

ErrNoName == "Plugin name is required"

\* call: how the last call of use() ended; warned: it warned of an
\* overwrite; last: for each name, the plugin of the last use() that
\* returned since the last clearPlugins().
NoUse ==
  [call |-> "none", plugin |-> Plugin("", << >>, "none", "none"), error |-> "",
   warned |-> FALSE, last |-> EmptyMap]

\* use(plugin)
Use(plugin) ==
  /\ IF plugin.name = ""
       THEN /\ used' = [used EXCEPT !.call = "threw", !.plugin = plugin,
                                    !.error = ErrNoName, !.warned = FALSE]
            /\ UNCHANGED pluginRegistry
       ELSE /\ used' = [call |-> "returned", plugin |-> plugin, error |-> "",
                        warned |-> RegistryHas(pluginRegistry, plugin.name),
                        last |-> MapSet(used.last, plugin.name, plugin)]
            /\ pluginRegistry' = RegistrySet(pluginRegistry, plugin)
  /\ UNCHANGED <<cache, img, bg, options, run, cap, pre>>

\* clearPlugins()
ClearPlugins ==
  /\ pluginRegistry' = << >>
  /\ used' = [used EXCEPT !.last = EmptyMap]
  /\ UNCHANGED <<cache, img, bg, options, run, cap, pre>>

\* runHook(hookName, context), with context.plugins = plugins, up to its
\* first await.
RunHook(hookName, plugins) ==
  /\ run.pc # "running"
  /\ run' = RunLoop([IdleRun EXCEPT !.pc = "running", !.hookName = hookName,
                                    !.allPlugins = normalizePlugins(plugins, pluginRegistry)], 1)
  /\ UNCHANGED <<cache, img, bg, options, pluginRegistry, used, cap, pre>>

\* The promise of the i-th plugin's hook settles, and runHook goes on.
HookSettles(i) ==
  /\ i \in run.inflight
  /\ LET kind == run.allPlugins[i].hooks[run.hookName]
         settled == [run EXCEPT
                       !.inflight = @ \ {i},
                       !.writes = IF kind = "async" THEN Append(@, <<i, "finish">>) ELSE @]
     IN  run' = IF run.pc # "running" \/ ~AwaitsHook THEN settled
                ELSE IF kind = "rejects" THEN [settled EXCEPT !.pc = "threw"]
                ELSE RunLoop(settled, i + 1)
  /\ UNCHANGED <<cache, img, bg, options, pluginRegistry, used, cap, pre>>

(***************************************************************************)
(* captureDOM                                                              *)
(***************************************************************************)
ErrNoElement == "Element cannot be null or undefined"

\* An element to capture: the sources of its <img> elements and the layers
\* of its computed background-image, each in document order.
NoElement == [imgs |-> << >>, layers |-> << >>, null |-> TRUE]

Elements ==
  [imgs : {<< >>} \cup {<<src>> : src \in {"data:image/png;base64,AA", "a.svg?v"}},
   layers : {<< >>} \cup {<<entry>> : entry \in Entries},
   null : {FALSE}]

\* imgs, bgs: the fetchImage and inlineSingleBackgroundEntry calls made for
\* it; quiet: when it was called a preCache had completed and no
\* resolution was in flight; trace: the stages of the call that have
\* completed, in order; sandbox:
\* the element with id snapdom-sandbox in the document ("none" when there is
\* none, else its style.position, "removed" once removed).
IdleCapture ==
  [pc |-> "idle", element |-> NoElement, embedFonts |-> FALSE, compress |-> FALSE, plugins |-> << >>,
   trace |-> << >>, sandbox |-> "none", baseHit |-> FALSE,
   imgs |-> {}, bgs |-> {}, quiet |-> TRUE, status |-> "pending", value |-> ""]

\* The plugins lists captures are made with.
CapturePlugins == {<< >>, <<ObjectEntry(Plugin("x", << <<"b", 2>> >>, "none", "sync"))>>}

\* What prepareClone leaves in the document.
Sandboxes == {"none", "absolute", "static"}

\* collectUsedTagNames(clone).sort().join(",")
TagKey == "div,img"

BaseCSS == "div{}img{}"

\* buildSVGDataURL: the document reference.
SVGDataURL == "data:image/svg+xml;charset=utf-8," \o encodeURIComponent("<svg/>")

Done(call, stage) == [call EXCEPT !.trace = Append(@, stage)]

Throws(call) == [call EXCEPT !.pc = "threw", !.status = "rejected"]

\* captureDOM from step 4 on, up to the await of buildSVGDataURL.
ToAssemble(call) == [call EXCEPT !.pc = "buildSVGDataURL"]

\* captureDOM from step 3 on, up to its next await: getBaseCSS looks the
\* tag key up in cache.baseStyle.
ToBaseCSS(call) ==
  IF call.compress
    THEN [call EXCEPT !.pc = "getBaseCSS", !.baseHit = Has(cache.baseStyle, TagKey)]
    ELSE ToAssemble(call)

\* captureDOM from the font step on, up to its next await.
ToFonts(call) ==
  IF call.embedFonts THEN [call EXCEPT !.pc = "embedCustomFonts"] ELSE ToBaseCSS(call)

\* A preCache has completed, with every callback it attached, and no
\* resolution is in flight.
Quiescent ==
  /\ pre.pc \in {"returned", "threw"}
  /\ \A c \in pre.imgs : img[c].promise = "fulfilled" => c \in pre.stored
  /\ \A c \in ImgCalls : img[c].pc \in {"idle", "done"}
  /\ \A b \in BgCalls : bg[b].pc \in {"idle", "done"}

\* The captureDOM calls: two callers may each have one under way.
Captures == {"A", "B"}

\* The captureDOM calls with that of caller k replaced.
SetCapture(k, call) == [cap EXCEPT ![k] = call]

CaptureDOMResetsFirst(k, element, embedFonts, compress, plugins) ==
  /\ cap[k].pc = "idle"
  /\ cache' = cacheReset
  /\ bg' = AfterReset(bg)
  /\ LET call == [IdleCapture EXCEPT !.element = element, !.embedFonts = embedFonts,
                                     !.compress = compress, !.plugins = plugins,
                                     !.quiet = Quiescent]
     IN  cap' = SetCapture(k, IF element.null
                                THEN [Throws(call) EXCEPT !.value = ErrNoElement]
                                ELSE [Done(call, "reset") EXCEPT !.pc = "prepareClone"])
  /\ UNCHANGED <<img, options, pluginRegistry, run, used, pre>>

CaptureDOMKeepsCache(k, element, embedFonts, compress, plugins) ==
  /\ cap[k].pc = "idle"
  /\ LET call == [IdleCapture EXCEPT !.element = element, !.embedFonts = embedFonts,
                                     !.compress = compress, !.plugins = plugins,
                                     !.quiet = Quiescent]
     IN  cap' = SetCapture(k, IF element.null
                                THEN [Throws(call) EXCEPT !.value = ErrNoElement]
                                ELSE [Done(call, "reset") EXCEPT !.pc = "prepareClone"])
  /\ UNCHANGED <<cache, img, bg, options, pluginRegistry, run, used, pre>>

\* captureDOM(element, options) up to its throw or its await of prepareClone.
CaptureDOM(k, element, embedFonts, compress, plugins) ==
  /\ cap[k].pc = "idle"
  /\ LET call == [IdleCapture EXCEPT !.element = element, !.embedFonts = embedFonts,
                                     !.compress = compress, !.plugins = plugins,
                                     !.quiet = Quiescent]
     IN  IF element.null
           THEN /\ cap' = SetCapture(k, [Throws(call) EXCEPT !.value = ErrNoElement])
                /\ UNCHANGED <<cache, bg>>
           ELSE /\ cache' = cacheReset
                /\ bg' = AfterReset(bg)
                /\ cap' = SetCapture(k, [Done(call, "reset") EXCEPT !.pc = "prepareClone"])
  /\ UNCHANGED <<img, options, pluginRegistry, run, used, pre>>

\* prepareClone has settled: it returned the clone, leaving the sandbox it
\* made in the document, or it threw.
CloneSettles(k, ok, sandbox) ==
  /\ cap[k].pc = "prepareClone"
  /\ cap' = SetCapture(k,
       IF ok
         THEN [Done(cap[k], "prepareClone") EXCEPT !.pc = "inlineImages", !.sandbox = sandbox]
         ELSE [Throws(cap[k]) EXCEPT !.sandbox = sandbox])
  /\ UNCHANGED <<cache, img, bg, options, pluginRegistry, run, used, pre>>

\* inlineImages calls fetchImage for the next <img> of the clone.
InlineImage(k, c) ==
  /\ cap[k].pc = "inlineImages"
  /\ Cardinality(cap[k].imgs) < Len(cap[k].element.imgs)
  /\ c = FreeIn(img)
  /\ LET r == FetchImageCall(cap[k].element.imgs[Cardinality(cap[k].imgs) + 1], cache.image)
     IN  /\ img' = [img EXCEPT ![c] = r.call]
         /\ cache' = [cache EXCEPT !.image = r.image]
  /\ cap' = SetCapture(k, [cap[k] EXCEPT !.imgs = @ \cup {c}])
  /\ UNCHANGED <<bg, options, pluginRegistry, run, used, pre>>

\* inlineImages has settled: every fetchImage it called has, and a failed
\* one leaves its image as it was.
ImagesSettle(k) ==
  /\ cap[k].pc = "inlineImages"
  /\ Cardinality(cap[k].imgs) = Len(cap[k].element.imgs)
  /\ \A c \in cap[k].imgs : img[c].promise # "pending"
  /\ cap' = SetCapture(k, [Done(cap[k], "inlineImages") EXCEPT !.pc = "inlineBackgroundImages"])
  /\ UNCHANGED <<cache, img, bg, options, pluginRegistry, run, used, pre>>

\* inlineBackgroundImages calls inlineSingleBackgroundEntry for the next
\* layer.
InlineBackground(k, b) ==
  /\ cap[k].pc = "inlineBackgroundImages"
  /\ Cardinality(cap[k].bgs) < Len(cap[k].element.layers)
  /\ b = FreeIn(bg)
  /\ LET st == EntryCall(cap[k].element.layers[Cardinality(cap[k].bgs) + 1], b,
                         [img |-> img, bg |-> bg, cache |-> cache, ok |-> TRUE])
     IN  /\ st.ok
         /\ img' = st.img
         /\ bg' = st.bg
         /\ cache' = st.cache
  /\ cap' = SetCapture(k, [cap[k] EXCEPT !.bgs = @ \cup {b}])
  /\ UNCHANGED <<options, pluginRegistry, run, used, pre>>

\* inlineBackgroundImages has settled: every call it made has, and a failed
\* one leaves its layer as it was.
BackgroundsSettle(k) ==
  /\ cap[k].pc = "inlineBackgroundImages"
  /\ Cardinality(cap[k].bgs) = Len(cap[k].element.layers)
  /\ \A b \in cap[k].bgs : bg[b].pc = "done"
  /\ cap' = SetCapture(k, ToFonts(Done(cap[k], "inlineBackgroundImages")))
  /\ UNCHANGED <<cache, img, bg, options, pluginRegistry, run, used, pre>>

\* embedCustomFonts has settled.
FontsSettle(k, ok) ==
  /\ cap[k].pc = "embedCustomFonts"
  /\ cap' = SetCapture(k, IF ok THEN ToBaseCSS(Done(cap[k], "embedCustomFonts")) ELSE Throws(cap[k]))
  /\ UNCHANGED <<cache, img, bg, options, pluginRegistry, run, used, pre>>

\* getBaseCSS has settled: on a miss generateDedupedBaseCSS has returned
\* (or thrown) and the result is stored under the tag key.
BaseCSSSettles(k, ok) ==
  /\ cap[k].pc = "getBaseCSS"
  /\ IF cap[k].baseHit
       THEN /\ cap' = SetCapture(k, ToAssemble(Done(cap[k], "getBaseCSS")))
            /\ UNCHANGED cache
       ELSE IF ok
         THEN /\ cache' = [cache EXCEPT !.baseStyle = MapSet(@, TagKey, BaseCSS)]
              /\ cap' = SetCapture(k, ToAssemble(Done(cap[k], "getBaseCSS")))
         ELSE /\ cap' = SetCapture(k, Throws(cap[k]))
              /\ UNCHANGED cache
  /\ UNCHANGED <<img, bg, options, pluginRegistry, run, used, pre>>

\* document.getElementById("snapdom-sandbox"), removed if its position is
\* absolute.
RemoveSandbox(call) ==
  [Done(call, "removeSandbox") EXCEPT
     !.sandbox = IF @ = "absolute" THEN "removed" ELSE @]

\* buildSVGDataURL has settled: captureDOM removes the sandbox and returns
\* the data URL, or the rejection propagates.
AssembleSettles(k, ok) ==
  /\ cap[k].pc = "buildSVGDataURL"
  /\ cap' = SetCapture(k,
       IF ok
         THEN [Done(RemoveSandbox(Done(cap[k], "buildSVGDataURL")), "return") EXCEPT
                 !.pc = "returned", !.status = "fulfilled", !.value = SVGDataURL]
         ELSE Throws(cap[k]))
  /\ UNCHANGED <<cache, img, bg, options, pluginRegistry, run, used, pre>>

(***************************************************************************)
(* preCache                                                                *)
(***************************************************************************)
\* imgs: the fetchImage calls it has made; stored: those whose then
\* callback has run; bgs: the inlineSingleBackgroundEntry calls it has made.
IdlePreCache ==
  [pc |-> "idle", root |-> NoElement, reset |-> FALSE, embedFonts |-> FALSE,
   trace |-> << >>, imgs |-> {}, stored |-> {}, bgs |-> {}]

\* The roots preCache is called with: the src of their img[src] elements
\* and the layers of the computed background-image of their elements.
Roots ==
  [imgs : {<< >>, <<"https://b/i b.png">>, <<"a.svg?v">>},
   layers : {<< >>, <<"Linear-Gradient(red, blue)">>, <<"url('a b.svg?v')">>},
   null : {FALSE}]
    \cup {NoElement}

\* precacheCommonTags(): the base style of the common tags.
CommonTagKey == "div"

CommonTagCSS == "div{}"

RECURSIVE ScanImages(_, _, _)
\* The first loop of preCache from the i-th img on: fetchImage for each src
\* not in the cache. st holds the calls, the cache and the record of
\* preCache so far; ok is FALSE when the slots of the model do not suffice.
ScanImages(srcs, i, st) ==
  IF i > Len(srcs) THEN st
  ELSE IF Has(st.cache.image, srcs[i]) THEN ScanImages(srcs, i + 1, st)
  ELSE IF FreeIn(st.img) = 0 THEN [st EXCEPT !.ok = FALSE]
  ELSE LET c == FreeIn(st.img)
           r == FetchImageCall(srcs[i], st.cache.image)
       IN  ScanImages(srcs, i + 1,
                      [st EXCEPT !.img[c] = r.call, !.cache.image = r.image,
                                 !.pre.imgs = @ \cup {c}])

RECURSIVE ScanLayers(_, _, _)
\* The second loop of preCache from the i-th layer on:
\* inlineSingleBackgroundEntry for each layer that starts with url(.
ScanLayers(layers, i, st) ==
  IF i > Len(layers) \/ ~st.ok THEN st
  ELSE IF ~StartsWith(layers[i], "url(") THEN ScanLayers(layers, i + 1, st)
  ELSE IF FreeIn(st.bg) = 0 THEN [st EXCEPT !.ok = FALSE]
  ELSE LET b == FreeIn(st.bg)
       IN  ScanLayers(layers, i + 1,
                      [EntryCall(layers[i], b, st) EXCEPT !.pre.bgs = @ \cup {b}])

PreCacheFallsThrough(root, reset, embedFonts) ==
  /\ pre.pc = "idle"
  /\ LET call == [IdlePreCache EXCEPT !.root = root, !.reset = reset,
                                      !.embedFonts = embedFonts, !.pc = "fontsReady"]
     IN  IF reset
           THEN /\ cache' = cacheReset
                /\ bg' = AfterReset(bg)
                /\ pre' = [call EXCEPT !.trace = <<"reset">>]
           ELSE /\ pre' = call
                /\ UNCHANGED <<cache, bg>>
  /\ UNCHANGED <<img, options, pluginRegistry, run, used, cap>>

\* preCache(root, options) up to its return or its await of
\* document.fonts.ready.
PreCache(root, reset, embedFonts) ==
  /\ pre.pc = "idle"
  /\ LET call == [IdlePreCache EXCEPT !.root = root, !.reset = reset,
                                      !.embedFonts = embedFonts]
     IN  IF reset
           THEN /\ cache' = cacheReset
                /\ bg' = AfterReset(bg)
                /\ pre' = [call EXCEPT !.pc = "returned", !.trace = <<"reset">>]
           ELSE /\ pre' = [call EXCEPT !.pc = "fontsReady"]
                /\ UNCHANGED <<cache, bg>>
  /\ UNCHANGED <<img, options, pluginRegistry, run, used, cap>>

\* document.fonts.ready has settled: precacheCommonTags, the two loops, and
\* the await of embedCustomFonts or of Promise.all.
PreCacheScans ==
  /\ pre.pc = "fontsReady"
  /\ LET warmed == [cache EXCEPT !.baseStyle = MapSet(@, CommonTagKey, CommonTagCSS)]
         st0 == [img |-> img, bg |-> bg, cache |-> warmed, ok |-> TRUE,
                 pre |-> [pre EXCEPT !.trace = @ \o <<"fonts.ready", "precacheCommonTags">>]]
         st == ScanLayers(pre.root.layers, 1, ScanImages(pre.root.imgs, 1, st0))
     IN  /\ st.ok
         /\ img' = st.img
         /\ bg' = st.bg
         /\ cache' = st.cache
         /\ pre' = [st.pre EXCEPT !.pc = IF pre.embedFonts THEN "embedFonts" ELSE "all",
                                  !.trace = Append(@, "scan")]
  /\ UNCHANGED <<options, pluginRegistry, run, used, cap>>

\* embedCustomFonts({preCached: true}) has settled.
PreCacheFontsSettle(ok) ==
  /\ pre.pc = "embedFonts"
  /\ pre' = IF ok THEN [pre EXCEPT !.pc = "all", !.trace = Append(@, "embedCustomFonts")]
            ELSE [pre EXCEPT !.pc = "threw"]
  /\ UNCHANGED <<cache, img, bg, options, pluginRegistry, run, used, cap>>

\* .then((dataURL) => cache.image.set(src, dataURL)) of a fetchImage call
\* preCache made.
PreCacheThen(c) ==
  /\ c \in pre.imgs \ pre.stored
  /\ img[c].promise = "fulfilled"
  /\ cache' = [cache EXCEPT !.image = MapSet(@, img[c].src, img[c].value)]
  /\ pre' = [pre EXCEPT !.stored = @ \cup {c}]
  /\ UNCHANGED <<img, bg, options, pluginRegistry, run, used, cap>>

\* await Promise.all(promises) is over: every promise pushed has settled,
\* a rejection being caught.
PreCacheReturns ==
  /\ pre.pc = "all"
  /\ \A c \in pre.imgs : img[c].promise = "rejected" \/ c \in pre.stored
  /\ \A b \in pre.bgs : bg[b].pc = "done"
  /\ pre' = [pre EXCEPT !.pc = "returned"]
  /\ UNCHANGED <<cache, img, bg, options, pluginRegistry, run, used, cap>>

Init ==
  /\ cap = [k \in Captures |-> IdleCapture]
  /\ pre = IdlePreCache
  /\ pluginRegistry = << >>
  /\ used = NoUse
  /\ run = IdleRun
  /\ cache = cacheReset
  /\ img = [c \in ImgCalls |-> IdleCall]
  /\ bg = [b \in BgCalls |-> IdleEntry]
  /\ options \in [useProxy : ProxyOpts, skipInline : BOOLEAN]

\* fetchImage reads useProxy alone of the options.
InitImage == Init /\ ~options.skipInline

NextImage ==
  \/ \E c \in ImgCalls, src \in Sources : FetchImage(c, src)
  \/ \E c \in ImgCalls : RasterStep(c) \/ SvgStep(c) \/ FallbackStep(c)
  \/ PreCacheReset

SpecImage == InitImage /\ [][NextImage]_vars

NextBackground ==
  \/ \E b \in BgCalls, entry \in Entries : InlineSingleBackgroundEntry(b, entry)
  \/ \E b \in BgCalls : BackgroundResumes(b)
  \/ \E c \in ImgCalls : SvgStep(c) \/ FallbackStep(c)
  \/ PreCacheReset

SpecBackground == Init /\ [][NextBackground]_vars

\* The plugin registry and runHook read none of these options.
InitPlugins == Init /\ options = [useProxy |-> NoProxy, skipInline |-> FALSE]

NextPlugins ==
  \/ \E plugin \in GlobalPlugins : Use(plugin)
  \/ ClearPlugins
  \/ \E hookName \in HooksRun, plugins \in PluginLists : RunHook(hookName, plugins)
  \/ \E i \in 1..MaxPlugins : HookSettles(i)

SpecPlugins == InitPlugins /\ [][NextPlugins]_vars

\* A fetchImage call made before preCache, and preCache.
NextPreCache ==
  \/ \E c \in ImgCalls : pre.pc = "idle" /\ FetchImage(c, "data:image/png;base64,AA")
  \/ \E root \in Roots, reset, embedFonts \in BOOLEAN : PreCache(root, reset, embedFonts)
  \/ PreCacheScans
  \/ \E ok \in BOOLEAN : PreCacheFontsSettle(ok)
  \/ \E c \in ImgCalls : PreCacheThen(c)
  \/ PreCacheReturns
  \/ \E c \in ImgCalls : RasterStep(c) \/ SvgStep(c) \/ FallbackStep(c)
  \/ \E b \in BgCalls : BackgroundResumes(b)

SpecPreCache == Init /\ [][NextPreCache]_vars

NextCapture ==
  \/ \E element \in Elements \cup {NoElement}, embedFonts, compress \in BOOLEAN,
          plugins \in CapturePlugins :
       CaptureDOM("A", element, embedFonts, compress, plugins)
  \/ \E ok \in BOOLEAN, sandbox \in Sandboxes : CloneSettles("A", ok, sandbox)
  \/ \E c \in ImgCalls : InlineImage("A", c)
  \/ ImagesSettle("A")
  \/ \E b \in BgCalls : InlineBackground("A", b)
  \/ BackgroundsSettle("A")
  \/ \E ok \in BOOLEAN : FontsSettle("A", ok)
  \/ \E ok \in BOOLEAN : BaseCSSSettles("A", ok)
  \/ \E ok \in BOOLEAN : AssembleSettles("A", ok)
  \/ \E c \in ImgCalls : SvgStep(c) \/ FallbackStep(c)
  \/ \E b \in BgCalls : BackgroundResumes(b)

SpecCapture == Init /\ [][NextCapture]_vars

\* A root and an element that hold the same image and the same layer.
WarmedElement == [imgs |-> <<"a.svg?v">>, layers |-> <<"url('a b.svg?v')">>, null |-> FALSE]

WarmedRoots ==
  {[WarmedElement EXCEPT !.layers = << >>], [WarmedElement EXCEPT !.imgs = << >>]}

\* A preCache and a capture of the same content, in any interleaving.
NextWarmCapture ==
  \/ \E root \in WarmedRoots : PreCache(root, FALSE, FALSE)
  \/ PreCacheScans
  \/ \E c \in ImgCalls : PreCacheThen(c)
  \/ PreCacheReturns
  \/ \E element \in {NoElement, WarmedElement} : CaptureDOM("A", element, FALSE, FALSE, << >>)
  \/ \E ok \in BOOLEAN : CloneSettles("A", ok, "absolute")
  \/ \E c \in ImgCalls : InlineImage("A", c)
  \/ ImagesSettle("A")
  \/ \E b \in BgCalls : InlineBackground("A", b)
  \/ BackgroundsSettle("A")
  \/ \E ok \in BOOLEAN : AssembleSettles("A", ok)
  \/ \E c \in ImgCalls : SvgStep(c) \/ FallbackStep(c)
  \/ \E b \in BgCalls : BackgroundResumes(b)

SpecWarmCapture == Init /\ [][NextWarmCapture]_vars

\* The elements two callers capture at the same time: one holds an embedded
\* image and a vector-image layer, the other a vector image.
ConcurrentElements ==
  {[imgs |-> <<"data:image/png;base64,AA">>, layers |-> <<"url('a b.svg?v')">>, null |-> FALSE],
   [imgs |-> <<"a.svg?v">>, layers |-> << >>, null |-> FALSE]}

\* captureDOM passes its options on; skipInline is preCache's.
InitConcurrent == Init /\ ~options.skipInline

\* Two captureDOM calls under way at once over the one cache.
NextConcurrent ==
  \E k \in Captures :
    \/ \E element \in ConcurrentElements : CaptureDOM(k, element, FALSE, FALSE, << >>)
    \/ \E ok \in BOOLEAN : CloneSettles(k, ok, "none")
    \/ \E c \in ImgCalls : InlineImage(k, c)
    \/ ImagesSettle(k)
    \/ \E b \in BgCalls : InlineBackground(k, b)
    \/ BackgroundsSettle(k)
    \/ \E ok \in BOOLEAN : AssembleSettles(k, ok)
    \/ \E c \in ImgCalls : SvgStep(c) \/ FallbackStep(c)
    \/ \E b \in BgCalls : BackgroundResumes(b)

SpecConcurrent == InitConcurrent /\ [][NextConcurrent]_vars

(***************************************************************************)
(* The claims about fetchImage                                             *)
(***************************************************************************)
RasterCalls == {c \in ImgCalls : img[c].kind = "raster"}

\* C1: a fetchImage call for a sourceRef that is present in the image
\* namespace returns exactly the cached value, starts no I/O (no timer, no
\* image load, no fetch) and writes nothing to the cache.
C1_CacheHitNoIO ==
  [][\A c \in ImgCalls :
       (img[c].pc = "idle" /\ img'[c].pc # "idle" /\ img'[c].src \in DOMAIN cache.image) =>
         /\ img'[c].pc = "done"
         /\ img'[c].promise = "fulfilled"
         /\ img'[c].value = cache.image[img'[c].src]
         /\ img'[c].io = <<>>
         /\ img'[c].wrote = <<>>
         /\ cache' = cache]_vars

\* A call served from the cache, for a reference whose cached value differs
\* from the reference itself.
C1_Witness ==
  \E c \in ImgCalls : img[c].kind = "hit" /\ img[c].value # img[c].src

\* C2: a fetchImage call whose result is a failure has written nothing
\* under its sourceRef in the image namespace, also when the load signal
\* arrives after the timeout has fired.
C2_FailedNeverCached ==
  \A c \in ImgCalls : img[c].promise = "rejected" => img[c].wrote = <<>>

\* The escalation of a raster call whose image load failed: the direct fetch
\* first, the proxied fetch only after the direct one failed and only with a
\* proxy base string configured.
EscalationOrder(call) ==
  /\ Len(call.io) \in {3, 4}
  /\ call.io[3].kind = "fetch" /\ call.io[3].url = call.src
  /\ Len(call.io) = 4 =>
       /\ call.io[3].out # Pending /\ ~StartsWith(call.io[3].out, "data:image/")
       /\ options.useProxy.kind = "string" /\ options.useProxy.str # ""
       /\ call.io[4].kind = "fetch"
       /\ call.io[4].url = options.useProxy.str \o safeEncodeURI(call.src)
  /\ (call.pc = "done" /\ ~StartsWith(call.io[3].out, "data:image/")
        /\ options.useProxy.kind = "string") => Len(call.io) = 4

\* The result of that escalation: the direct value, else the proxied value,
\* else the CORS/proxy error.
EscalationResult(call) ==
  call.pc = "done" =>
    /\ StartsWith(call.io[3].out, "data:image/") =>
         call.promise = "fulfilled" /\ call.value = call.io[3].out
    /\ (Len(call.io) = 4 /\ StartsWith(call.io[4].out, "data:image/")) =>
         call.promise = "fulfilled" /\ call.value = call.io[4].out
    /\ (Len(call.io) = 4 /\ ~StartsWith(call.io[4].out, "data:image/")) =>
         call.promise = "rejected" /\ call.value = ErrProxy

C4_TimeoutNeverCaches ==
  \A c \in RasterCalls :
    img[c].timer = "fired" =>
      /\ img[c].promise = "rejected" /\ img[c].value = ErrTimeout
      /\ img[c].wrote = <<>>

\* C5: every call for an embedded-data reference of image type returns the
\* reference itself and starts no I/O, the first call as well as a call that
\* resolves the returned value again; what the cache holds under such a
\* reference is the reference.
C5_DataURIRoundTrip ==
  /\ \A c \in ImgCalls :
       (img[c].pc # "idle" /\ StartsWith(img[c].src, "data:image/")) =>
         /\ img[c].pc = "done" /\ img[c].promise = "fulfilled"
         /\ img[c].value = img[c].src
         /\ img[c].io = <<>>
  /\ \A k \in DOMAIN cache.image :
       StartsWith(k, "data:image/") => cache.image[k] = k

\* A first call for an embedded-data reference, and a second call made with
\* the value the first returned.
C5_Witness ==
  \E c, d \in ImgCalls :
    /\ img[c].kind = "data" /\ img[d].kind = "hit"
    /\ img[d].src = img[c].value /\ img[d].value = img[c].value

(***************************************************************************)
(* The claims about inlineSingleBackgroundEntry                            *)
(***************************************************************************)
\* C6: a call for an entry without a url(...) payload (none, a gradient, any
\* other text) returns the entry unchanged, raises nothing, starts no
\* resolution and leaves the cache as it is.
C6_PassThrough ==
  [][\A b \in BgCalls :
       (bg[b].pc = "idle" /\ bg'[b].pc # "idle" /\ extractURL(bg'[b].entry) = "") =>
         /\ bg'[b].pc = "done"
         /\ bg'[b].status = "returned"
         /\ bg'[b].ret = bg'[b].entry
         /\ bg'[b].child = 0
         /\ img' = img
         /\ cache' = cache]_vars

\* A gradient and an unrecognized entry, both passed through.
C6_Witness ==
  \E b, d \in BgCalls :
    /\ bg[b].path = "pass" /\ isGradient(bg[b].entry)
    /\ bg[d].path = "pass" /\ ~isGradient(bg[d].entry) /\ bg[d].entry # "none"

\* C7: with warm-only mode off, a call that missed the cache and a call for
\* the same entry that hit it, with no reset since either was made, return
\* the same value.
C7_MissEqualsHit ==
  \A b, d \in BgCalls :
    ( /\ ~options.skipInline
      /\ bg[b].path = "miss" /\ bg[b].status = "returned" /\ ~bg[b].stale
      /\ bg[d].path = "hit" /\ bg[d].status = "returned" /\ ~bg[d].stale
      /\ bg[d].entry = bg[b].entry )
    => bg[d].ret = bg[b].ret

InSeq(x, s) == \E i \in 1..Len(s) : s[i] = x

HookKind(i) == run.allPlugins[i].hooks[run.hookName]

\* C8: runHook calls the hooks of the effective list in list order and one
\* at a time: when a hook is called no earlier hook is in flight, every
\* plugin before it that has a function under the hook name was called
\* before it and has completed, and all it wrote to the context is there.
C8_HookOrdering ==
  /\ Cardinality(run.inflight) <= 1
  /\ \A k \in 1..Len(run.seen) :
       LET at == run.seen[k]
       IN  /\ at.during = {}
           /\ \A j \in 1..(at.idx - 1) :
                IsFunction(HookKind(j)) =>
                  /\ \E m \in 1..(k - 1) : run.seen[m].idx = j
                  /\ InSeq(<<j, "begin">>, at.saw)
                  /\ InSeq(<<j, "finish">>, at.saw)
           /\ \A m \in 1..(k - 1) : run.seen[m].idx < at.idx

\* An asynchronous hook of the first plugin has settled and the hook of the
\* second plugin found what it wrote.
C8_Witness ==
  /\ run.pc = "done"
  /\ Len(run.seen) = 2
  /\ run.seen[1].idx = 1 /\ HookKind(1) = "async"
  /\ run.seen[2].idx = 2
  /\ InSeq(<<1, "finish">>, run.seen[2].saw)

OverrideOf(p) == normalizePlugins(<<ObjectEntry(p)>>, pluginRegistry)

\* C9: an object entry named like a registered plugin yields one effective
\* plugin whose options are the union of the registered options and the
\* entry's, the entry's value winning on a key both have; and the call that
\* builds the effective list leaves the registry as it was.
C9_OverrideMerge ==
  /\ [](\A p \in LocalPlugins :
          RegistryHas(pluginRegistry, p.name) =>
            LET base == RegistryGet(pluginRegistry, p.name)
                eff == OverrideOf(p)
            IN  /\ Len(eff) = 1
                /\ eff[1].name = p.name
                /\ Len(eff[1].options) = Cardinality(ObjKeys(eff[1].options))
                /\ ObjKeys(eff[1].options) = ObjKeys(base.options) \cup ObjKeys(p.options)
                /\ \A k \in ObjKeys(eff[1].options) :
                     ObjGet(eff[1].options, k) =
                       IF k \in ObjKeys(p.options) THEN ObjGet(p.options, k)
                       ELSE ObjGet(base.options, k))
  /\ [][run'.allPlugins # run.allPlugins => pluginRegistry' = pluginRegistry]_vars

\* x is registered with {a: 1}, and a run has built an effective plugin x
\* with {a: 1, b: 2} from the entry {name: x, options: {b: 2}}.
C9_Witness ==
  /\ RegistryHas(pluginRegistry, "x")
  /\ RegistryGet(pluginRegistry, "x").options = << <<"a", 1>> >>
  /\ \E i \in 1..Len(run.allPlugins) :
       /\ run.allPlugins[i].name = "x"
       /\ run.allPlugins[i].options = << <<"a", 1>>, <<"b", 2>> >>

\* What the trace of a capture holds for a call of runHook(hookName, ...).
HookStage(hookName) == "runHook(" \o hookName \o ")"

\* C10: a capture that returns has run each of the five lifecycle hooks
\* once, at its boundary: beforeClone, the clone, afterClone, beforeRender,
\* the inlining and style stages, afterRender, the assembly, the removal of
\* the sandbox, afterExport, the return.
C10_HooksAtBoundaries ==
  cap["A"].status = "fulfilled" =>
    cap["A"].trace =
      <<"reset", HookStage("beforeClone"), "prepareClone", HookStage("afterClone"),
        HookStage("beforeRender"), "inlineImages", "inlineBackgroundImages">>
      \o (IF cap["A"].embedFonts THEN <<"embedCustomFonts">> ELSE << >>)
      \o (IF cap["A"].compress THEN <<"getBaseCSS">> ELSE << >>)
      \o <<HookStage("afterRender"), "buildSVGDataURL", "removeSandbox",
           HookStage("afterExport"), "return">>

\* C11: when a capture has completed, by a return or by an error that
\* propagates, the staging container made during it (the absolutely
\* positioned snapdom-sandbox) is no longer in the document.
C11_SandboxRemovedOnEveryExit ==
  cap["A"].pc \in {"returned", "threw"} => cap["A"].sandbox # "absolute"

\* A step that is a call of runHook: no run is under way and a new one
\* appears.
IsRunHookStep == run.pc # "running" /\ run' # run

\* C12: a call of runHook takes into its effective list every registered
\* plugin that has a function under the hook name, named in the local list
\* or not (no context of the model opts out of the global plugins).
C12_GlobalsTakePart ==
  [][IsRunHookStep =>
       \A g \in 1..Len(pluginRegistry) :
         IsFunction(pluginRegistry[g].hooks[run'.hookName]) =>
           \E i \in 1..Len(run'.allPlugins) :
             run'.allPlugins[i].name = pluginRegistry[g].name]_vars

Raises(i) == HookKind(i) \in {"throws", "rejects"}

\* C13: a hook that throws, or whose promise rejects, is the last hook the
\* run calls: once it has failed the run has thrown, and a run that ends
\* normally has no such hook in its list.
C13_ThrowingHookAborts ==
  /\ \A k \in 1..Len(run.seen) :
       Raises(run.seen[k].idx) =>
         /\ k = Len(run.seen)
         /\ run.seen[k].idx \notin run.inflight => run.pc = "threw"
  /\ run.pc = "done" => \A i \in 1..Len(run.allPlugins) : ~Raises(i)

\* The hook of the first plugin has rejected, the run has thrown, and the
\* second plugin's hook, a function, was never called.
C13_Witness ==
  /\ run.pc = "threw"
  /\ Len(run.allPlugins) = 2
  /\ HookKind(1) = "rejects" /\ HookKind(2) = "throws"
  /\ Len(run.seen) = 1 /\ run.seen[1].idx = 1
  /\ run.inflight = {}

\* C14: an object entry named like a registered plugin yields an effective
\* plugin that holds, under every hook name the entry defines, what the
\* entry holds there, and under every option key of the entry the entry's
\* value.
C14_LocalDefinitionWins ==
  \A p \in LocalPlugins :
    RegistryHas(pluginRegistry, p.name) =>
      LET eff == OverrideOf(p)[1]
      IN  /\ \A h \in HookNames : p.hooks[h] # "none" => eff.hooks[h] = p.hooks[h]
          /\ \A k \in ObjKeys(p.options) : ObjGet(eff.options, k) = ObjGet(p.options, k)

\* A step that is a call of use().
IsUseStep == used'.call # used.call \/ used'.plugin # used.plugin

\* C15: use() of a plugin without a name throws the name error and leaves
\* the registry as it was; use() of a named plugin returns; and the registry
\* holds, for each name, one plugin: that of the last use() of the name that
\* returned since the last clearPlugins().
C15_RegistryHoldsLastUse ==
  /\ [](/\ used.call = "threw" => used.plugin.name = "" /\ used.error = ErrNoName
        /\ used.call = "returned" => used.plugin.name # ""
        /\ {pluginRegistry[i].name : i \in 1..Len(pluginRegistry)} = DOMAIN used.last
        /\ \A i, j \in 1..Len(pluginRegistry) :
             pluginRegistry[i].name = pluginRegistry[j].name => i = j
        /\ \A i \in 1..Len(pluginRegistry) :
             pluginRegistry[i] = used.last[pluginRegistry[i].name])
  /\ [][IsUseStep /\ used'.call = "threw" => pluginRegistry' = pluginRegistry]_vars

\* x was registered, then registered again with another definition, which
\* the registry now holds; and a use() without a name has thrown since.
C15_Witness ==
  /\ used.call = "threw"
  /\ RegistryHas(pluginRegistry, "x")
  /\ RegistryGet(pluginRegistry, "x").options = << <<"b", 1>>, <<"a", 2>> >>
  /\ RegistryHas(pluginRegistry, "y")
  /\ pluginRegistry[1].name = "x"

\* A step that is a call of captureDOM.
IsCaptureStep == cap["A"].pc = "idle" /\ cap'["A"].pc # "idle"

\* C16: captureDOM called without an element throws the element error and
\* does nothing else: the cache keeps its entries, no stage is entered, no
\* fetchImage or inlineSingleBackgroundEntry call is made and no hook run.
C16_NoElementFailsFast ==
  /\ [][IsCaptureStep /\ cap'["A"].element.null =>
          /\ cap'["A"].pc = "threw" /\ cap'["A"].value = ErrNoElement
          /\ cap'["A"].trace = << >>
          /\ UNCHANGED <<cache, img, bg, run, pre>>]_vars
  /\ [](cap["A"].element.null /\ cap["A"].pc # "idle" =>
          cap["A"].pc = "threw" /\ cap["A"].trace = << >> /\ cap["A"].imgs = {} /\ cap["A"].bgs = {})

\* A capture without an element has thrown and the image a preCache had
\* stored is still in the cache.
C16_Witness ==
  /\ cap["A"].pc = "threw" /\ cap["A"].element.null
  /\ cap["A"].quiet
  /\ Has(cache.image, "a.svg?v")

\* The fetchImage calls made for the capture: by inlineImages, or by an
\* inlineSingleBackgroundEntry call of inlineBackgroundImages.
CaptureFetches == cap["A"].imgs \cup {bg[b].child : b \in {d \in cap["A"].bgs : bg[d].child # 0}}

IsPreCacheStep == pre.pc = "idle" /\ pre'.pc # "idle"

\* C18: preCache with the reset option empties the cache and returns at
\* once, whatever its root and its other options: it has not waited for
\* the fonts, warmed no base style, scanned nothing, made no fetchImage or
\* inlineSingleBackgroundEntry call and run no font embedding.
C18_ResetOnly ==
  /\ [][IsPreCacheStep /\ pre'.reset =>
          /\ pre'.pc = "returned"
          /\ cache'.image = EmptyMap
          /\ cache'.background = EmptyMap
          /\ cache'.baseStyle = EmptyMap
          /\ UNCHANGED img]_vars
  /\ [](pre.reset /\ pre.pc # "idle" =>
          /\ pre.pc = "returned"
          /\ pre.trace = <<"reset">>
          /\ pre.imgs = {} /\ pre.bgs = {}
          /\ cache.baseStyle = EmptyMap)

\* A preCache with reset and embedFonts, on a root that holds an image, has
\* returned, and the entry an earlier fetchImage call had stored is gone.
C18_Witness ==
  /\ pre.reset /\ pre.pc = "returned" /\ pre.embedFonts
  /\ pre.root.imgs # << >>
  /\ \E c \in ImgCalls : img[c].wrote # << >>
  /\ cache.image = EmptyMap

\* C19: when a preCache without reset has returned, every fetchImage and
\* inlineSingleBackgroundEntry call it made has settled and has come to its
\* end: none of them has a load, decode or fetch outstanding that could
\* still write the cache.
C19_NothingInFlightOnReturn ==
  pre.pc = "returned" /\ ~pre.reset =>
    /\ \A c \in pre.imgs : img[c].promise # "pending" /\ img[c].pc = "done"
    /\ \A b \in pre.bgs : bg[b].pc = "done"

\* Call c stores a value under its sourceRef in this step.
Stores(c) == Len(img'[c].wrote) = Len(img[c].wrote) + 1

\* C20: a fetchImage call that began with its sourceRef uncached and
\* stores while the cache already holds an entry under that sourceRef,
\* stored by another call that ran at the same time, stores the value that
\* entry holds.  Neither call has timed out.
C20_ConcurrentCallsStoreOneValue ==
  [][\A c, d \in ImgCalls :
       /\ c # d
       /\ Stores(c)
       /\ img[c].timer # "fired"
       /\ img[d].src = img[c].src
       /\ img[d].timer # "fired"
       /\ img[d].wrote # << >>
       /\ Has(cache.image, img[c].src)
       /\ cache.image[img[c].src] = img[d].wrote[Len(img[d].wrote)]
       => /\ cache'.image[img[c].src] = cache.image[img[c].src]
          /\ img'[c].value = img[d].value]_vars

(***************************************************************************)
(* The claims about concurrent captures                                    *)
(***************************************************************************)
\* Caller k's captureDOM call resets the cache in this step.
IsResetStep(k) == cap[k].pc = "idle" /\ cap'[k].pc = "prepareClone"

\* C21: captures under way at the same time are not isolated.  The reset
\* a capture starts with empties the cache whatever the other capture has
\* stored in it, and cancels none of the other capture's calls: they stay
\* as they were, and when one of them gets its result afterwards it stores
\* it, in the cache that was reset.  (The interleaving itself is
\* C21_Witness.)
C21_ResetCancelsNothing ==
  /\ [][\A k \in Captures :
          IsResetStep(k) =>
            /\ cache'.image = EmptyMap /\ cache'.background = EmptyMap
            /\ img' = img
            /\ \A j \in Captures \ {k} : cap'[j] = cap[j]
            /\ \A b \in BgCalls :
                 bg'[b] = [bg[b] EXCEPT !.stale = (bg[b].pc # "idle")]]_vars
  /\ [][\A b \in BgCalls :
          /\ bg[b].pc = "await" /\ bg'[b].pc = "done"
          /\ img[bg[b].child].promise = "fulfilled"
          => /\ Has(cache'.background, bg[b].key)
             /\ cache'.background[bg[b].key] = img[bg[b].child].value]_vars
  /\ [][\A c \in ImgCalls :
          Stores(c) =>
            /\ Has(cache'.image, img'[c].src)
            /\ cache'.image[img'[c].src] = img'[c].wrote[Len(img'[c].wrote)]]_vars

\* Capture k has stored an image entry, the other capture has then started
\* and reset the cache, so that the entry is gone, and the layer call k had
\* under way at that reset has since stored its result in the reset cache.
C21_Witness ==
  \E k \in Captures :
    /\ \A j \in Captures : cap[j].pc # "idle" /\ ~cap[j].element.null
    /\ \A j \in Captures \ {k} : cap[j].bgs = {}
    /\ \E c \in cap[k].imgs :
         img[c].wrote # << >> /\ ~Has(cache.image, img[c].src)
    /\ \E b \in cap[k].bgs :
         /\ bg[b].stale /\ bg[b].pc = "done" /\ bg[b].status = "returned"
         /\ Has(cache.background, bg[b].key)

(***************************************************************************)
(* The claims about the cache-warm-only mode                               *)
(***************************************************************************)
\* inlineSingleBackgroundEntry call b comes to its end in this step.
Finishes(b) == bg[b].pc # "done" /\ bg'[b].pc = "done"

\* The entries with a URL payload, and the encoded URL of each.
UrlEntries == {entry \in Entries : extractURL(entry) # ""}

EncodedUrlOf == [entry \in UrlEntries |-> safeEncodeURI(extractURL(entry))]

\* C22: with skipInline set, an inlineSingleBackgroundEntry call for an
\* entry with a URL payload returns nothing, on a hit as on a miss; when it
\* has succeeded cache.background holds, under the encoded URL, the data
\* the resolution gave (on a hit, what it held already); when the
\* resolution has failed the call stores nothing.
C22_CacheWarmOnly ==
  [][\A b \in BgCalls :
       /\ options.skipInline
       /\ Finishes(b)
       /\ bg'[b].entry \in UrlEntries
       => LET key == EncodedUrlOf[bg'[b].entry]
          IN  IF bg'[b].status = "raised"
                THEN /\ bg'[b].path = "miss"
                     /\ img[bg[b].child].promise = "rejected"
                     /\ cache'.background = cache.background
                ELSE /\ bg'[b].status = "void" /\ bg'[b].ret = ""
                     /\ Has(cache'.background, key)
                     /\ IF bg'[b].path = "hit"
                          THEN cache'.background = cache.background
                          ELSE /\ img[bg[b].child].promise = "fulfilled"
                               /\ cache'.background[key] = img[bg[b].child].value]_vars

\* With skipInline set, one call has missed, stored the data under the
\* encoded key and returned nothing, and a later call for the same entry has
\* hit and returned nothing.
C22_Witness ==
  /\ options.skipInline
  /\ \E b, d \in BgCalls :
       /\ bg[b].pc = "done" /\ bg[b].path = "miss" /\ bg[b].status = "void"
       /\ bg[b].key = "a%20b.svg?v"
       /\ Has(cache.background, bg[b].key)
       /\ cache.background[bg[b].key] = img[bg[b].child].value
       /\ bg[d].pc = "done" /\ bg[d].path = "hit" /\ bg[d].status = "void"
       /\ bg[d].entry = bg[b].entry

(***************************************************************************)
(* The claims about credentials and about the cache after a success        *)
(***************************************************************************)
\* The fetches call c has made.
FetchesOf(c) == {i \in 1..Len(img[c].io) : img[c].io[i].kind = "fetch"}

\* C23: every fetch a fetchImage call makes (the vector-image fetch, the
\* direct fetch, the proxied fetch) carries the credential mode of the
\* cross-origin decision taken for the call's sourceRef: include when the
\* sourceRef is same-origin, omit when it is cross-origin.
C23_CredentialsFollowSourceRef ==
  \A c \in ImgCalls : \A i \in FetchesOf(c) :
    img[c].io[i].cred =
      (IF Origin(img[c].src) = PageOrigin THEN "include" ELSE "omit")

\* fetchImage call c completes successfully in this step.
Succeeds(c) == img[c].promise = "pending" /\ img'[c].promise = "fulfilled"

\* C24: when a fetchImage call completes successfully, by whichever path,
\* cache.image holds the call's sourceRef with exactly the value the call
\* returned, so that the next call for it is a hit.
C24_SuccessIsCached ==
  [][\A c \in ImgCalls :
       Succeeds(c) =>
         /\ Has(cache'.image, img'[c].src)
         /\ cache'.image[img'[c].src] = img'[c].value]_vars

====
